---- MODULE Spec2Model ----
(***************************************************************************)
(* DisasterDash backend (src/backend/server.py): the REST handlers over    *)
(* the five collections users, sessions, reports, shelters, ai_updates.    *)
(* One action per handler; the FastAPI dependencies verify_session and     *)
(* verify_admin run inside the handler's action, before its body.          *)
(*                                                                         *)
(* Values.  An Optional[...] is a sequence of length <= 1 (None is <<>>).  *)
(* A point in time is a number of seconds.  Python keeps two kinds of      *)
(* value for it, a datetime object and the string isoformat() makes of it; *)
(* both are records [type, t] so that the arithmetic the code does on a    *)
(* stored value is decided by the kind of value that was stored.           *)
(* A float score is a number of tenths (6 is 0.6).                         *)
(***************************************************************************)
EXTENDS Integers, Sequences, FiniteSets, TLC

VARIABLES users, sessions, reports, shelters, ai_updates,
          now, uuids, request, response, inflight

db   == <<users, sessions, reports, shelters, ai_updates>>
vars == <<users, sessions, reports, shelters, ai_updates,
          now, uuids, request, response, inflight>>

(* ---------------------------- bounds ---------------------------------- *)
MaxSessions == 2      \* logins that succeed in one run
MaxDays == 8          \* the clock stops after this many days
MaxSeed == 2          \* reports the store holds at start
MaxReports == 3       \* reports the store can hold
MaxShelters == 2      \* shelters the store can hold
MaxUpdates == 2       \* AI updates the store can hold
MaxStored == 6        \* reports the store of the dashboard runs holds

(* ---------------------------- values ---------------------------------- *)
None == <<>>
Some(v) == <<v>>

DaySecs == 86400

datetime(t) == [type |-> "datetime", t |-> t]
isoformat(d) == [type |-> "str", t |-> d.t]
utcnow == datetime(now)

\* Python truthiness of a stored timestamp: None is falsy, a datetime and a
\* non-empty string are truthy.
Truthy(v) == v # None

\* datetime.__sub__: defined for two datetimes, TypeError for a str operand.
TypeError == [type |-> "TypeError"]
Sub(a, b) ==
    IF a.type = "datetime" /\ b.type = "datetime"
    THEN [type |-> "timedelta", secs |-> a.t - b.t]
    ELSE TypeError

\* timedelta.days: whole days, the fraction dropped (floor).
days(delta) == delta.secs \div DaySecs

SessionMaxDays == 7

\* uuid.uuid4(): a value no earlier call returned.
uuid4 == uuids + 1
str(u) == "uuid-" \o ToString(u)

Ok(v) == [ok |-> TRUE, value |-> v]
HTTPException(status_code, detail) ==
    [ok |-> FALSE, status |-> status_code, detail |-> detail]
\* An exception no handler catches: the framework answers 500.
Unhandled(e) == [ok |-> FALSE, status |-> 500, detail |-> e]

Reply(status, detail, body) == [status |-> status, detail |-> detail, body |-> body]
Failure(r) == Reply(r.status, r.detail, None)

(* ------------------------- auth helpers ------------------------------- *)
\* An expiry check that reads the stored string back as a datetime before
\* subtracting.
session_user_fromisoformat(session) ==
    IF days([type |-> "timedelta", secs |-> utcnow.t - session.created_at.t]) > SessionMaxDays
    THEN HTTPException(401, "Session expired")
    ELSE Ok(session.user_id)

\* Lines 120-125: the expiry check on the session document found.
session_user(session) ==
    LET created_at == session.created_at
    IN  IF Truthy(created_at)
        THEN LET delta == Sub(utcnow, created_at)
             IN  IF delta = TypeError
                 THEN Unhandled("TypeError")
                 ELSE IF days(delta) > SessionMaxDays
                      THEN HTTPException(401, "Session expired")
                      ELSE Ok(session.user_id)
        ELSE Ok(session.user_id)

\* verify_session without its `if not session` check: the lookup result None
\* is used as a document, which raises.
verify_session_unchecked(authorization) ==
    IF authorization = None
    THEN HTTPException(401, "No authorization token provided")
    ELSE LET session_token == authorization[1]
             found == {s \in sessions : s.session_token = session_token}
         IN  IF found = {}
             THEN Unhandled("AttributeError")
             ELSE session_user(CHOOSE s \in found : TRUE)

verify_session(authorization) ==
    IF authorization = None
    THEN HTTPException(401, "No authorization token provided")
    ELSE LET session_token == authorization[1]
             found == {s \in sessions : s.session_token = session_token}
         IN  IF found = {}
             THEN HTTPException(401, "Invalid session token")
             ELSE session_user(CHOOSE s \in found : TRUE)

\* An admin check that lets every caller through.
verify_admin_open(authorization) == Ok("anyone")

verify_admin(authorization) ==
    LET v == verify_session(authorization)
    IN  IF ~v.ok THEN v
        ELSE LET user == {u \in users : u.id = v.value}
             IN  IF user = {} \/ \A u \in user : u.role # "admin"
                 THEN HTTPException(403, "Admin access required")
                 ELSE Ok(v.value)

(* -------------------------- store helpers ----------------------------- *)
Min(a, b) == IF a <= b THEN a ELSE b

\* cursor.to_list(n): the first n documents of the cursor.
to_list(cursor, n) == SubSeq(cursor, 1, Min(n, Len(cursor)))

\* The orders in which a cursor can deliver a set of documents.
Cursors(S) ==
    {c \in [1..Cardinality(S) -> S] : \A i, j \in DOMAIN c : i # j => c[i] # c[j]}

\* Order of two stored created_at values.  They are isoformat() strings of
\* UTC datetimes, which compare as the instants they denote.
IsoLeq(a, b) == a.t <= b.t

\* .sort("created_at", -1): newest first, ties in any order.
sort_desc(S) ==
    {c \in Cursors(S) :
        \A i, j \in DOMAIN c : i < j => IsoLeq(c[j].created_at, c[i].created_at)}

ListLimit == 1000
RecentLimit == 100

(* ----------------------------- inputs --------------------------------- *)
AdminEmail == "admin@disasterdash.com"
Emails == {AdminEmail, "user@example.com"}
SessionIds == {"ext-1"}

\* What the session-exchange service does: it answers 200 with a profile,
\* 200 with a body that has no email, or another status; or the HTTP call
\* raises.
ExternalResponses ==
    {[raised |-> FALSE, status_code |-> 200, email |-> Some(e)] : e \in Emails}
    \cup {[raised |-> FALSE, status_code |-> 200, email |-> None]}
    \cup {[raised |-> FALSE, status_code |-> 401, email |-> None]}
    \cup {[raised |-> TRUE, status_code |-> 0, email |-> None]}

\* Bearer credentials a client can present: none, one that was never
\* issued, or the token of a stored session.
Authorizations ==
    {None, Some("session_forged")}
    \cup {Some(s.session_token) : s \in sessions}

\* JSON bodies of POST /reports: a plain one, and one that also carries
\* fields the client has no business setting.
ReportBodies ==
    {[title |-> "Flood", city |-> Some("Paris"), country |-> Some("France"),
      severity |-> "critical", extra |-> None],
     [title |-> "Fire", city |-> None, country |-> None, severity |-> "low",
      extra |-> Some([status |-> "validated", ai_severity_score |-> Some(9),
                      ai_auto_flag |-> TRUE, reporter_id |-> "seed-admin"])]}

\* JSON bodies of PUT /reports/{id}.  ReportUpdate.status is any string.
ReportUpdates ==
    {[status |-> "validated", ai_severity_score |-> None, ai_auto_flag |-> None],
     [status |-> "archived", ai_severity_score |-> None, ai_auto_flag |-> None],
     [status |-> "resolved", ai_severity_score |-> Some(9), ai_auto_flag |-> Some(TRUE)]}

ShelterBodies ==
    {[name |-> "Arena", capacity |-> 5000, type |-> "general"]}

CityFilters == {None, Some(""), Some("Paris")}
StatusFilters == {None, Some(""), Some("pending")}

(* ------------------------------ state --------------------------------- *)
\* seed_data.py: the store after seeding holds one admin, no session, and
\* reports, shelters and AI updates written as plain documents.
SeedAdmin ==
    [id |-> "seed-admin", email |-> AdminEmail, role |-> "admin",
     created_at |-> isoformat(datetime(0)), last_seen_at |-> isoformat(datetime(0))]

SeedReport(n, city, severity, status, score, flag, at) ==
    [id |-> "seed-r" \o ToString(n), reporter_id |-> SeedAdmin.id,
     title |-> "Seed " \o ToString(n), city |-> city, country |-> Some("Seedland"),
     severity |-> severity, ai_severity_score |-> score, status |-> status,
     created_at |-> isoformat(datetime(at)), updated_at |-> isoformat(datetime(at)),
     ai_auto_flag |-> flag]

SeedReports ==
    {SeedReport(1, Some("Paris"), "critical", "validated", Some(9), TRUE, 0),
     SeedReport(2, Some("Rome"), "critical", "pending", Some(8), TRUE, 0)}

SeedShelters ==
    {[id |-> "seed-s1", name |-> "Garden", capacity |-> 5000, type |-> "general",
      created_at |-> isoformat(datetime(0))]}

SeedUpdates ==
    {[id |-> "seed-a1", region |-> "city", region_name |-> "Paris",
      summary |-> [incidents |-> 1, city |-> "Paris"],
      severity_data |-> <<[title |-> "Seed 1", severity |-> "critical", priority |-> 1]>>,
      last_run_at |-> isoformat(datetime(0))]}

Init ==
    /\ users = {SeedAdmin}
    /\ sessions = {}
    /\ reports = SeedReports
    /\ shelters = SeedShelters
    /\ ai_updates = SeedUpdates
    /\ now = 0
    /\ uuids = 0
    /\ request = [op |-> "none", authorization |-> None]
    /\ response = Reply(0, "", None)
    /\ inflight = <<>>

(* ------------------------------ clock --------------------------------- *)
\* Time passes between requests: seven days and a second, or eight days.
Delays == {7 * DaySecs + 1, 8 * DaySecs}

Tick(d) ==
    /\ now + d <= MaxDays * DaySecs
    /\ now' = now + d
    /\ UNCHANGED <<inflight, users, sessions, reports, shelters, ai_updates,
                   uuids, request, response>>

(* ---------------------------- auth routes ----------------------------- *)
\* A token that does not depend on the uuid drawn.
static_session_token(u) == "session_" \o "static"

\* f"session_{uuid.uuid4()}"
new_session_token(u) == "session_" \o str(u)

\* User.role: str = "user"
DefaultRoleAdmin == "admin"
DefaultRole == "user"

\* POST /auth/session.  Everything raised inside the try block (the failed
\* HTTP call, the handler's own HTTPException(401), the KeyError of a body
\* without email) is caught by `except Exception` and answered as 500.
process_session(session_id, ext) ==
    /\ Cardinality(sessions) < MaxSessions
    /\ request' = [op |-> "process_session", authorization |-> None,
                   session_id |-> session_id, ext |-> ext]
    /\ IF ext.raised \/ ext.status_code # 200 \/ ext.email = None
       THEN /\ response' = Reply(500, "Session processing failed", None)
            /\ UNCHANGED <<users, sessions, uuids>>
       ELSE LET email == ext.email[1]
                existing == {u \in users : u.email = email}
                fresh == existing = {}
                new_user == [id |-> str(uuid4), email |-> email, role |-> DefaultRole,
                             created_at |-> isoformat(utcnow),
                             last_seen_at |-> isoformat(utcnow)]
                existing_user == CHOOSE u \in existing : TRUE
                user_id == IF fresh THEN new_user.id ELSE existing_user.id
                drawn == IF fresh THEN uuids + 1 ELSE uuids
                session_token == new_session_token(drawn + 1)
                session_doc == [session_token |-> session_token,
                                user_id |-> user_id,
                                created_at |-> isoformat(utcnow)]
            IN  /\ users' = IF fresh
                            THEN users \cup {new_user}
                            ELSE {IF u.id = user_id
                                  THEN [u EXCEPT !.last_seen_at = isoformat(utcnow)]
                                  ELSE u : u \in users}
                /\ sessions' = sessions \cup {session_doc}
                /\ uuids' = drawn + 1
                /\ response' = Reply(200, "",
                                     [session_token |-> session_token,
                                      user |-> CHOOSE u \in users' : u.id = user_id])
    /\ UNCHANGED <<inflight, reports, shelters, ai_updates, now>>

\* POST /auth/session as the event loop runs it.  The handler is suspended
\* at each await, and other requests run meanwhile.  login_lookup is the
\* handler up to the answer of find_one (lines 153-167); the request then
\* waits in inflight with what the lookup found.
login_lookup(session_id, ext) ==
    /\ Cardinality(sessions) + Len(inflight) < MaxSessions
    /\ request' = [op |-> "process_session", authorization |-> None,
                   session_id |-> session_id, ext |-> ext]
    /\ IF ext.raised \/ ext.status_code # 200 \/ ext.email = None
       THEN /\ response' = Reply(500, "Session processing failed", None)
            /\ UNCHANGED inflight
       ELSE /\ \E existing_user \in
                    IF \E u \in users : u.email = ext.email[1]
                    THEN {Some(u.id) : u \in {w \in users : w.email = ext.email[1]}}
                    ELSE {None} :
                  inflight' = Append(inflight, [session_id |-> session_id, ext |-> ext,
                                                existing_user |-> existing_user])
            /\ UNCHANGED response
    /\ UNCHANGED <<users, sessions, reports, shelters, ai_updates, now, uuids>>

\* The rest of the handler (lines 169-199) for the i-th waiting request:
\* it acts on what its own lookup found.
login_write(i) ==
    /\ i \in DOMAIN inflight
    /\ request' = [op |-> "process_session", authorization |-> None,
                   session_id |-> inflight[i].session_id, ext |-> inflight[i].ext]
    /\ LET email == inflight[i].ext.email[1]
           fresh == inflight[i].existing_user = None
           new_user == [id |-> str(uuid4), email |-> email, role |-> DefaultRole,
                        created_at |-> isoformat(utcnow),
                        last_seen_at |-> isoformat(utcnow)]
           user_id == IF fresh THEN new_user.id ELSE inflight[i].existing_user[1]
           drawn == IF fresh THEN uuids + 1 ELSE uuids
           session_token == new_session_token(drawn + 1)
           session_doc == [session_token |-> session_token,
                           user_id |-> user_id,
                           created_at |-> isoformat(utcnow)]
       IN  /\ users' = IF fresh
                       THEN users \cup {new_user}
                       ELSE {IF u.id = user_id
                             THEN [u EXCEPT !.last_seen_at = isoformat(utcnow)]
                             ELSE u : u \in users}
           /\ sessions' = sessions \cup {session_doc}
           /\ uuids' = drawn + 1
           /\ response' = Reply(200, "",
                                [session_token |-> session_token,
                                 user |-> CHOOSE u \in users' : u.id = user_id])
    /\ inflight' = [j \in 1..(Len(inflight) - 1) |->
                       IF j < i THEN inflight[j] ELSE inflight[j + 1]]
    /\ UNCHANGED <<reports, shelters, ai_updates, now>>

\* DELETE /auth/logout
logout(authorization) ==
    /\ request' = [op |-> "logout", authorization |-> authorization]
    /\ LET v == verify_session(authorization)
       IN  IF ~v.ok
           THEN /\ response' = Failure(v)
                /\ UNCHANGED sessions
           ELSE /\ sessions' = {s \in sessions : s.user_id # v.value}
                /\ response' = Reply(200, "Logged out successfully", None)
    /\ UNCHANGED <<inflight, users, reports, shelters, ai_updates, now, uuids>>

\* GET /auth/me
get_current_user(authorization) ==
    /\ request' = [op |-> "get_current_user", authorization |-> authorization]
    /\ LET v == verify_session(authorization)
           user == {u \in users : u.id = v.value}
       IN  response' = IF ~v.ok THEN Failure(v)
                       ELSE IF user = {} THEN Reply(404, "User not found", None)
                       ELSE Reply(200, "", CHOOSE u \in user : TRUE)
    /\ UNCHANGED <<inflight, users, sessions, reports, shelters, ai_updates, now, uuids>>

(* ---------------------------- user routes ----------------------------- *)
\* GET /users
get_users(authorization) ==
    /\ request' = [op |-> "get_users", authorization |-> authorization]
    /\ LET v == verify_admin(authorization)
       IN  response' = IF ~v.ok THEN Failure(v) ELSE Reply(200, "", users)
    /\ UNCHANGED <<inflight, users, sessions, reports, shelters, ai_updates, now, uuids>>

(* --------------------------- report routes ---------------------------- *)
\* ReportCreate(**body).dict(): the declared fields; anything else in the
\* body is ignored.
ReportCreate(body) ==
    [title |-> body.title, city |-> body.city, country |-> body.country,
     severity |-> body.severity]

\* Report(**report_data): id, status, AI fields and timestamps take their
\* defaults.
Report(report_data) ==
    [id |-> str(uuid4), reporter_id |-> report_data.reporter_id,
     title |-> report_data.title, city |-> report_data.city,
     country |-> report_data.country, severity |-> report_data.severity,
     ai_severity_score |-> None, status |-> "pending",
     created_at |-> utcnow, updated_at |-> utcnow, ai_auto_flag |-> FALSE]

\* prepare_for_mongo: datetimes become their isoformat() strings.
prepare_for_mongo(doc) ==
    [k \in DOMAIN doc |->
        IF k \in {"created_at", "updated_at", "last_run_at"}
        THEN isoformat(doc[k]) ELSE doc[k]]

\* POST /reports
create_report(authorization, body) ==
    /\ Cardinality(reports) < MaxReports
    /\ request' = [op |-> "create_report", authorization |-> authorization,
                   body |-> body]
    /\ LET v == verify_session(authorization)
           report_data == ReportCreate(body) @@ [reporter_id |-> v.value]
           new_report == Report(report_data)
       IN  IF ~v.ok
           THEN /\ response' = Failure(v)
                /\ UNCHANGED <<reports, uuids>>
           ELSE /\ reports' = reports \cup {prepare_for_mongo(new_report)}
                /\ uuids' = uuids + 1
                /\ response' = Reply(200, "", new_report)
    /\ UNCHANGED <<inflight, users, sessions, shelters, ai_updates, now>>

\* A query that forgets the status condition.
Matches_city_only(r, city, status) ==
    (city # None /\ city[1] # "") => r.city = city

\* The Mongo query get_reports builds: a filter that is None or the empty
\* string adds no condition.
Matches(r, city, status) ==
    /\ (city # None /\ city[1] # "") => r.city = city
    /\ (status # None /\ status[1] # "") => Some(r.status) = status

\* GET /reports
get_reports(city, status) ==
    /\ request' = [op |-> "get_reports", authorization |-> None,
                   city |-> city, status |-> status]
    /\ \E cursor \in sort_desc({r \in reports : Matches(r, city, status)}) :
           response' = Reply(200, "", to_list(cursor, ListLimit))
    /\ UNCHANGED <<inflight, users, sessions, reports, shelters, ai_updates, now, uuids>>

\* {k: v for k, v in update.dict().items() if v is not None}, then $set.
apply_update(r, update) ==
    [r EXCEPT
        !.status = update.status,
        !.ai_severity_score =
            IF update.ai_severity_score # None THEN update.ai_severity_score ELSE @,
        !.ai_auto_flag =
            IF update.ai_auto_flag # None THEN update.ai_auto_flag[1] ELSE @,
        !.updated_at = isoformat(utcnow)]

\* PUT /reports/{report_id}
update_report(authorization, report_id, update) ==
    /\ request' = [op |-> "update_report", authorization |-> authorization,
                   report_id |-> report_id, update |-> update]
    /\ LET v == verify_admin(authorization)
           matched == {r \in reports : r.id = report_id}
       IN  IF ~v.ok
           THEN /\ response' = Failure(v)
                /\ UNCHANGED reports
           ELSE IF matched = {}
           THEN /\ response' = Reply(404, "Report not found", None)
                /\ UNCHANGED reports
           ELSE /\ reports' = {IF r \in matched THEN apply_update(r, update) ELSE r
                               : r \in reports}
                /\ response' = Reply(200, "Report updated successfully", None)
    /\ UNCHANGED <<inflight, users, sessions, shelters, ai_updates, now, uuids>>

(* --------------------------- shelter routes --------------------------- *)
\* POST /shelters without its admin dependency.
create_shelter_open(authorization, shelter) ==
    /\ Cardinality(shelters) < MaxShelters
    /\ request' = [op |-> "create_shelter", authorization |-> authorization,
                   shelter |-> shelter]
    /\ LET new_shelter == [id |-> str(uuid4), name |-> shelter.name,
                           capacity |-> shelter.capacity, type |-> shelter.type,
                           created_at |-> utcnow]
       IN  /\ shelters' = shelters \cup {prepare_for_mongo(new_shelter)}
           /\ uuids' = uuids + 1
           /\ response' = Reply(200, "", new_shelter)
    /\ UNCHANGED <<inflight, users, sessions, reports, ai_updates, now>>

\* POST /shelters
create_shelter(authorization, shelter) ==
    /\ Cardinality(shelters) < MaxShelters
    /\ request' = [op |-> "create_shelter", authorization |-> authorization,
                   shelter |-> shelter]
    /\ LET v == verify_admin(authorization)
           new_shelter == [id |-> str(uuid4), name |-> shelter.name,
                           capacity |-> shelter.capacity, type |-> shelter.type,
                           created_at |-> utcnow]
       IN  IF ~v.ok
           THEN /\ response' = Failure(v)
                /\ UNCHANGED <<shelters, uuids>>
           ELSE /\ shelters' = shelters \cup {prepare_for_mongo(new_shelter)}
                /\ uuids' = uuids + 1
                /\ response' = Reply(200, "", new_shelter)
    /\ UNCHANGED <<inflight, users, sessions, reports, ai_updates, now>>

(* -------------------------- AI analysis route ------------------------- *)
\* Line 12 imports the class: `from datetime import datetime, timezone`.
\* These are the attributes of that class the module could look up;
\* timedelta is a name of the datetime module, not of the class.
DatetimeClassAttributes ==
    {"now", "utcnow", "fromisoformat", "fromtimestamp", "strptime", "combine",
     "min", "max", "resolution"}

AttributeError == [type |-> "AttributeError"]

\* datetime.timedelta(days=n), as line 289 writes it.
datetime_timedelta(n) ==
    IF "timedelta" \in DatetimeClassAttributes
    THEN [type |-> "timedelta", secs |-> n * DaySecs]
    ELSE AttributeError

\* report.get("city", "Unknown"): the default applies to a document without
\* the key.  Every stored report has the key (Report.dict() writes it, None
\* included), so the group is the stored value.
group_key(r) == r.city

SeverityScore == 6
AutoFlagThreshold == 7

\* One pass of the per-city loop over the fetched reports, in cursor order.
\* AIUpdate(region_name=None) is rejected by the model (region_name: str),
\* which ends the loop with the groups before it already written.
analysis(recent_reports) ==
    LET idx == DOMAIN recent_reports
        keys == {group_key(recent_reports[i]) : i \in idx}
        first(c) == CHOOSE i \in idx :
                        /\ group_key(recent_reports[i]) = c
                        /\ \A j \in idx : group_key(recent_reports[j]) = c => i <= j
        bad == {first(c) : c \in {k \in keys : k = None}}
        done == {c \in keys : \A b \in bad : first(c) < b}
        rank(c) == Cardinality({k \in done : first(k) <= first(c)})
        group(c) == {recent_reports[i] : i \in {j \in idx : group_key(recent_reports[j]) = c}}
        ai_update(c) ==
            [id |-> str(uuids + rank(c)), region |-> "city", region_name |-> c[1],
             summary |-> [incidents |-> Cardinality(group(c)), city |-> c[1]],
             severity_data |-> <<[title |-> recent_reports[first(c)].title,
                                  severity |-> "moderate", priority |-> 1]>>,
             last_run_at |-> isoformat(utcnow)]
        patched == {r.id : r \in UNION {group(c) : c \in done}}
    IN  [failed |-> bad # {},
         cities |-> Cardinality(keys),
         updates |-> {ai_update(c) : c \in done},
         reports |-> {IF r.id \in patched
                      THEN [r EXCEPT !.ai_severity_score = Some(SeverityScore),
                                     !.ai_auto_flag = SeverityScore > AutoFlagThreshold,
                                     !.updated_at = isoformat(utcnow)]
                      ELSE r : r \in reports}]

\* POST /ai/analyze.  The body runs inside try/except Exception: whatever
\* it raises, an HTTPException included, is answered as 500.
trigger_ai_analysis(authorization, emergent_key) ==
    /\ Cardinality(ai_updates) < MaxUpdates
    /\ request' = [op |-> "trigger_ai_analysis", authorization |-> authorization,
                   emergent_key |-> emergent_key]
    /\ LET v == verify_admin(authorization)
           one_day == datetime_timedelta(1)
           cutoff == isoformat(datetime(now - one_day.secs))
           recent == {r \in reports : IsoLeq(cutoff, r.created_at)}
       IN  IF ~v.ok
           THEN /\ response' = Failure(v)
                /\ UNCHANGED <<reports, ai_updates, uuids>>
           ELSE IF emergent_key = None
           THEN /\ response' = Reply(500, "AI analysis failed: AI service not configured", None)
                /\ UNCHANGED <<reports, ai_updates, uuids>>
           ELSE IF one_day = AttributeError
           THEN /\ response' = Reply(500, "AI analysis failed: AttributeError", None)
                /\ UNCHANGED <<reports, ai_updates, uuids>>
           ELSE \E cursor \in Cursors(recent) :
                  LET recent_reports == to_list(cursor, RecentLimit)
                      a == analysis(recent_reports)
                  IN  IF recent_reports = <<>>
                      THEN /\ response' = Reply(200, "No recent reports to analyze", None)
                           /\ UNCHANGED <<reports, ai_updates, uuids>>
                      ELSE /\ ai_updates' = ai_updates \cup a.updates
                           /\ reports' = a.reports
                           /\ uuids' = uuids + Cardinality(a.updates)
                           /\ response' =
                                IF a.failed
                                THEN Reply(500, "AI analysis failed: ValidationError", None)
                                ELSE Reply(200, "AI analysis completed",
                                           [cities_analyzed |-> a.cities,
                                            updates_created |-> Cardinality(a.updates)])
    /\ UNCHANGED <<inflight, users, sessions, shelters, now>>

(* --------------------------- public reads ----------------------------- *)
\* GET /reports/{report_id}
get_report(report_id) ==
    /\ request' = [op |-> "get_report", authorization |-> None,
                   report_id |-> report_id]
    /\ LET found == {r \in reports : r.id = report_id}
       IN  response' = IF found = {}
                       THEN Reply(404, "Report not found", None)
                       ELSE Reply(200, "", CHOOSE r \in found : TRUE)
    /\ UNCHANGED <<inflight, users, sessions, reports, shelters, ai_updates, now, uuids>>

\* GET /shelters
get_shelters ==
    /\ request' = [op |-> "get_shelters", authorization |-> None]
    /\ \E cursor \in Cursors(shelters) :
           response' = Reply(200, "", to_list(cursor, ListLimit))
    /\ UNCHANGED <<inflight, users, sessions, reports, shelters, ai_updates, now, uuids>>

\* .sort(key, -1): the largest value of the key first, ties in any order.
RECURSIVE sort_by_desc(_, _)
sort_by_desc(S, key) ==
    IF S = {}
    THEN {<<>>}
    ELSE LET top == {d \in S : \A e \in S : IsoLeq(e[key], d[key])}
         IN  UNION {{<<d>> \o c : c \in sort_by_desc(S \ {d}, key)} : d \in top}

UpdatesLimit == 50
Regions == {None, Some(""), Some("city"), Some("world")}

\* GET /ai/updates
get_ai_updates(region) ==
    /\ request' = [op |-> "get_ai_updates", authorization |-> None,
                   region |-> region]
    /\ LET query(u) == (region # None /\ region[1] # "") => u.region = region[1]
       IN  \E cursor \in sort_by_desc({u \in ai_updates : query(u)}, "last_run_at") :
               response' = Reply(200, "", to_list(cursor, UpdatesLimit))
    /\ UNCHANGED <<inflight, users, sessions, reports, shelters, ai_updates, now, uuids>>

DashboardReports == 100
DashboardShelters == 100
DashboardUpdates == 20
BucketLimit == 5

\* A slice that keeps one item more.
slice_one_more(list, n) == SubSeq(list, 1, Min(n + 1, Len(list)))

\* list[:n]
slice(list, n) == SubSeq(list, 1, Min(n, Len(list)))

\* The item the dashboard shows for a report.  report.get("city", "Unknown")
\* returns the stored value, None included: stored reports have the key.
\* The location every report carries is left out of the model.
item(report) ==
    [id |-> report.id, title |-> report.title, city |-> report.city,
     country |-> report.country, severity |-> report.severity,
     created_at |-> report.created_at]

NoLists ==
    [city_critical |-> <<>>, city_moderate |-> <<>>, city_low |-> <<>>,
     world_critical |-> <<>>, world_moderate |-> <<>>, world_low |-> <<>>]

\* A loop that fills the city lists only.
RECURSIVE categorize_city_only(_, _)
categorize_city_only(fetched, lists) ==
    IF fetched = <<>>
    THEN lists
    ELSE LET report == Head(fetched)
         IN  categorize_city_only(Tail(fetched),
                IF report.severity = "critical"
                THEN [lists EXCEPT !.city_critical = Append(@, item(report))]
                ELSE IF report.severity = "moderate"
                THEN [lists EXCEPT !.city_moderate = Append(@, item(report))]
                ELSE [lists EXCEPT !.city_low = Append(@, item(report))])

\* The loop of lines 406-426 over the fetched reports, in order.
RECURSIVE categorize(_, _)
categorize(fetched, lists) ==
    IF fetched = <<>>
    THEN lists
    ELSE LET report == Head(fetched)
         IN  categorize(Tail(fetched),
                IF report.severity = "critical"
                THEN [lists EXCEPT !.city_critical = Append(@, item(report)),
                                   !.world_critical = Append(@, item(report))]
                ELSE IF report.severity = "moderate"
                THEN [lists EXCEPT !.city_moderate = Append(@, item(report)),
                                   !.world_moderate = Append(@, item(report))]
                ELSE [lists EXCEPT !.city_low = Append(@, item(report)),
                                   !.world_low = Append(@, item(report))])

\* GET /dashboard/data
get_dashboard_data ==
    /\ request' = [op |-> "get_dashboard_data", authorization |-> None]
    /\ \E rc \in sort_by_desc(reports, "created_at"),
          sc \in Cursors(shelters),
          uc \in sort_by_desc(ai_updates, "last_run_at") :
          LET fetched == to_list(rc, DashboardReports)
              updates == to_list(uc, DashboardUpdates)
              lists == categorize(fetched, NoLists)
          IN  response' =
                Reply(200, "",
                      [reports |-> fetched,
                       shelters |-> to_list(sc, DashboardShelters),
                       ai_updates |-> updates,
                       city_data |->
                          [critical |-> slice(lists.city_critical, BucketLimit),
                           moderate |-> slice(lists.city_moderate, BucketLimit),
                           low |-> slice(lists.city_low, BucketLimit)],
                       world_data |->
                          [critical |-> slice(lists.world_critical, BucketLimit),
                           moderate |-> slice(lists.world_moderate, BucketLimit),
                           low |-> slice(lists.world_low, BucketLimit)],
                       last_ai_update |->
                          IF updates = <<>> THEN None
                          ELSE Some(updates[1].last_run_at)])
    /\ UNCHANGED <<inflight, users, sessions, reports, shelters, ai_updates, now, uuids>>

\* GET /
root ==
    /\ request' = [op |-> "root", authorization |-> None]
    /\ response' = Reply(200, "", [message |-> "DisasterDash API v1.0"])
    /\ UNCHANGED <<inflight, users, sessions, reports, shelters, ai_updates, now, uuids>>

\* GET /health
health_check ==
    /\ request' = [op |-> "health_check", authorization |-> None]
    /\ response' = Reply(200, "", [status |-> "healthy",
                                   timestamp |-> isoformat(utcnow)])
    /\ UNCHANGED <<inflight, users, sessions, reports, shelters, ai_updates, now, uuids>>

EmergentKeys == {None, Some("llm-key")}

(* --------------------------- specifications --------------------------- *)
Next ==
    \/ \E d \in Delays : Tick(d)
    \/ \E sid \in SessionIds, ext \in ExternalResponses : process_session(sid, ext)
    \/ \E a \in Authorizations : logout(a)
    \/ \E a \in Authorizations : get_current_user(a)
    \/ \E a \in Authorizations : get_users(a)
    \/ \E a \in Authorizations, b \in ReportBodies : create_report(a, b)
    \/ \E c \in CityFilters, s \in StatusFilters : get_reports(c, s)
    \/ \E a \in Authorizations, u \in ReportUpdates,
          id \in {r.id : r \in reports} \cup {"missing"} : update_report(a, id, u)
    \/ \E a \in Authorizations, s \in ShelterBodies : create_shelter(a, s)
    \/ \E a \in Authorizations, k \in EmergentKeys : trigger_ai_analysis(a, k)
    \/ \E id \in {r.id : r \in reports} \cup {"missing"} : get_report(id)
    \/ get_shelters
    \/ \E region \in Regions : get_ai_updates(region)
    \/ get_dashboard_data
    \/ root
    \/ health_check

Spec == Init /\ [][Next]_vars

\* The report listing over any small store: the store is drawn at start and
\* only read afterwards.
StoredReports ==
    [city : {None, Some(""), Some("Paris")},
     status : {"pending", "validated"},
     at : {0, 1}]

InitReports ==
    /\ users = {SeedAdmin}
    /\ sessions = {}
    /\ \E doc \in [1..MaxSeed -> StoredReports \cup {None}] :
          reports = {SeedReport(n, doc[n].city, "critical", doc[n].status,
                                None, FALSE, doc[n].at)
                     : n \in {m \in 1..MaxSeed : doc[m] # None}}
    /\ shelters = SeedShelters
    /\ ai_updates = SeedUpdates
    /\ now = 1
    /\ uuids = 0
    /\ request = [op |-> "none", authorization |-> None]
    /\ response = Reply(0, "", None)
    /\ inflight = <<>>

NextReports ==
    \E c \in CityFilters, s \in StatusFilters : get_reports(c, s)

SpecReports == InitReports /\ [][NextReports]_vars

\* Logins that overlap: lookups and writes of several requests in any
\* order, with time passing between them.
NextConcurrent ==
    \/ \E d \in Delays : Tick(d)
    \/ \E sid \in SessionIds, ext \in ExternalResponses : login_lookup(sid, ext)
    \/ \E i \in 1..MaxSessions : login_write(i)

SpecConcurrent == Init /\ [][NextConcurrent]_vars

\* The dashboard over any small store of reports of every severity, the
\* first two created at the same instant: the store is drawn at start and
\* only read afterwards.
Severities == {"critical", "moderate", "low", "extreme"}

InitDashboard ==
    /\ users = {SeedAdmin}
    /\ sessions = {}
    /\ \E n \in 0..MaxStored :
          \E severity \in [1..n -> Severities] :
             reports = {SeedReport(i, Some("Paris"), severity[i], "pending", None, FALSE,
                                   IF i = 1 THEN 2 ELSE i) : i \in 1..n}
    /\ shelters = SeedShelters
    /\ ai_updates = SeedUpdates
    /\ now = MaxStored + 1
    /\ uuids = 0
    /\ request = [op |-> "none", authorization |-> None]
    /\ response = Reply(0, "", None)
    /\ inflight = <<>>

NextDashboard == get_dashboard_data

SpecDashboard == InitDashboard /\ [][NextDashboard]_vars

(* ------------------------------ claims -------------------------------- *)
\* What the specification calls a valid session: the token is stored and
\* the whole days since its created_at are at most 7.
AgeDays(s) == (now - s.created_at.t) \div DaySecs
Stored(a) == a # None /\ \E s \in sessions : s.session_token = a[1]
Valid(a) == a # None /\ \E s \in sessions : s.session_token = a[1] /\ AgeDays(s) <= 7
Caller(a) == (CHOOSE s \in sessions : s.session_token = a[1]).user_id
IsAdmin(id) == \E u \in users : u.id = id /\ u.role = "admin"
ReportIds == {r.id : r \in reports} \cup {"missing"}
Range(f) == {f[i] : i \in DOMAIN f}

AdminRequest(a) ==
    \/ get_users(a)
    \/ \E u \in ReportUpdates, id \in ReportIds : update_report(a, id, u)
    \/ \E s \in ShelterBodies : create_shelter(a, s)
    \/ \E k \in EmergentKeys : trigger_ai_analysis(a, k)

ProtectedRequest(a) ==
    \/ logout(a)
    \/ get_current_user(a)
    \/ \E b \in ReportBodies : create_report(a, b)
    \/ AdminRequest(a)

\* C1: a stored session's token is rejected with 401 exactly when the whole
\* days since created_at exceed 7, and is otherwise accepted and yields the
\* session's user_id (7 days + 1 second passes, 8 days fails).
C1_ExpiryByWholeDays ==
    \A s \in sessions :
        LET v == verify_session(Some(s.session_token))
        IN  IF AgeDays(s) > 7
            THEN ~v.ok /\ v.status = 401
            ELSE v.ok /\ v.value = s.user_id

\* C2: a session-protected or admin-protected request with no bearer token,
\* or with a token no stored session has, is answered 401 and leaves the
\* five collections as they were.
C2_Unauthorized ==
    [][(~Stored(request'.authorization) /\ ProtectedRequest(request'.authorization))
          => (response'.status = 401 /\ db' = db)]_vars

C2_Witness ==
    /\ request.op = "create_shelter"
    /\ request.authorization = Some("session_forged")
    /\ response.status = 401
    /\ sessions # {}

\* C3: an admin-only request with a valid session of a non-admin user is
\* answered 403 and changes nothing; when the session check fails the
\* answer is 401, not 403.
C3_Forbidden ==
    [][\A a \in Authorizations :
          AdminRequest(a) =>
             /\ (Valid(a) /\ ~IsAdmin(Caller(a)))
                   => (response'.status = 403 /\ db' = db)
             /\ ~Valid(a) => response'.status = 401]_vars

\* C4: a logout with a valid session deletes every session of the caller
\* and no session of anyone else.
C4_LogoutAll ==
    [][\A a \in Authorizations :
          (Valid(a) /\ logout(a))
             => /\ response'.status = 200
                /\ sessions' = {s \in sessions : s.user_id # Caller(a)}]_vars

\* C5: when the session-exchange service answers with a status other than
\* 200, POST /auth/session is answered 401 and writes no user and no session.
C5_InvalidSession ==
    [][\A sid \in SessionIds, ext \in ExternalResponses :
          (~ext.raised /\ ext.status_code # 200 /\ process_session(sid, ext))
             => (response'.status = 401 /\ users' = users /\ sessions' = sessions)]_vars

\* C6: a successful login adds exactly one session, with a non-empty token
\* no stored session has; it returns that token, keeps every stored session
\* as it is, and does not change what verify_session answers for them.
C6_LoginAddsOneSession ==
    [][(/\ request'.op = "process_session"
        /\ process_session(request'.session_id, request'.ext)
        /\ response'.status = 200)
          => /\ sessions \subseteq sessions'
             /\ Cardinality(sessions' \ sessions) = 1
             /\ \A s \in sessions' \ sessions :
                   /\ s.session_token # ""
                   /\ s.session_token \notin {t.session_token : t \in sessions}
                   /\ response'.body.session_token = s.session_token
             /\ \A s \in sessions :
                   verify_session(Some(s.session_token))'
                      = verify_session(Some(s.session_token))]_vars

C6_Witness ==
    /\ request.op = "process_session"
    /\ request.session_id = "ext-1"
    /\ response.status = 200
    /\ \E s, t \in sessions :
          /\ s.user_id = t.user_id
          /\ s.session_token # t.session_token
          /\ response.body.session_token = t.session_token

\* C7: a create-report request with a valid session stores and returns a
\* report with reporter_id the caller, status pending, no AI score and the
\* auto flag off, whatever the body says about these fields.
ServerSet(r, caller) ==
    /\ r.reporter_id = caller
    /\ r.status = "pending"
    /\ r.ai_severity_score = None
    /\ r.ai_auto_flag = FALSE

C7_ServerSetFields ==
    [][\A a \in Authorizations, b \in ReportBodies :
          (Valid(a) /\ create_report(a, b))
             => /\ response'.status = 200
                /\ ServerSet(response'.body, Caller(a))
                /\ \E r \in reports' \ reports :
                      /\ reports' = reports \cup {r}
                      /\ ServerSet(r, Caller(a))]_vars

\* C8 as written: the listing is exactly the reports whose city and status
\* equal the supplied filters (an omitted filter matches everything), newest
\* first, and changes nothing.
NewestFirst(body) ==
    \A i, j \in DOMAIN body : i < j => body[i].created_at.t >= body[j].created_at.t

C8_ExactFilter ==
    [][\A c \in CityFilters, s \in StatusFilters :
          get_reports(c, s) =>
             LET body == response'.body
                 expected == {r \in reports :
                                 /\ c # None => r.city = c
                                 /\ s # None => r.status = s[1]}
             IN  /\ Range(body) = expected
                 /\ Len(body) = Cardinality(expected)
                 /\ NewestFirst(body)
                 /\ db' = db]_vars

\* C8 amended: a filter that is omitted or the empty string matches
\* everything; the listing is the newest 1000 of the reports whose city and
\* status equal the remaining filters, newest first, and changes nothing.
Given(f) == f # None /\ f # Some("")

C8_ListReports ==
    [][(request'.op = "get_reports" /\ get_reports(request'.city, request'.status)) =>
          LET c == request'.city
              s == request'.status
              body == response'.body
              expected == {r \in reports :
                              /\ Given(c) => r.city = c
                              /\ Given(s) => r.status = s[1]}
          IN  /\ Range(body) \subseteq expected
              /\ Cardinality(Range(body)) = Len(body)
              /\ Len(body) = Min(1000, Cardinality(expected))
              /\ NewestFirst(body)
              /\ \A r \in expected \ Range(body) :
                    \A i \in DOMAIN body : body[i].created_at.t >= r.created_at.t
              /\ db' = db]_vars

C8_Witness ==
    /\ request.op = "get_reports"
    /\ request.city = Some("")
    /\ request.status = Some("pending")
    /\ Len(response.body) = 1
    /\ response.body[1].city = Some("Paris")
    /\ \E r \in reports : r.status # "pending"

\* C9: an admin's update of an id no report has is answered 404 and changes
\* no report; an admin's update of a stored id with only status validated
\* changes that report's status and updated_at and nothing else.
C9_AdminUpdate ==
    [][\A a \in Authorizations, u \in ReportUpdates, id \in ReportIds :
          (Valid(a) /\ IsAdmin(Caller(a)) /\ update_report(a, id, u))
             => IF id \notin {r.id : r \in reports}
                THEN response'.status = 404 /\ reports' = reports
                ELSE (u.ai_severity_score = None /\ u.ai_auto_flag = None)
                        => /\ response'.status = 200
                           /\ \E at \in {r.updated_at : r \in reports'} :
                                 reports' = {IF r.id = id
                                             THEN [r EXCEPT !.status = u.status,
                                                            !.updated_at = at]
                                             ELSE r : r \in reports}]_vars

\* C10: an admin's /ai/analyze with the inference credential configured and
\* no report created within the last day is answered with success and the
\* "no reports" message, and writes nothing.
C10_NoRecentReports ==
    [][\A a \in Authorizations, k \in EmergentKeys :
          (/\ Valid(a) /\ IsAdmin(Caller(a))
           /\ k # None
           /\ \A r \in reports : r.created_at.t < now - DaySecs
           /\ trigger_ai_analysis(a, k))
             => /\ response'.status = 200
                /\ response'.detail = "No recent reports to analyze"
                /\ db' = db]_vars

\* The reports /ai/analyze is to look at: created within the last day.
RecentReports == {r \in reports : r.created_at.t >= now - DaySecs}
\* The group a report belongs to: its city, "Unknown" when it has none.
CityGroup(r) == IF r.city = None THEN "Unknown" ELSE r.city[1]
AnalyzeRun(a, k) ==
    /\ Valid(a) /\ IsAdmin(Caller(a))
    /\ k # None
    /\ RecentReports # {}
    /\ trigger_ai_analysis(a, k)

\* C11: an admin's /ai/analyze over a non-empty set of recent reports
\* succeeds and adds exactly one AIUpdate per distinct city among them, of
\* region "city" and named after the city ("Unknown" for reports without
\* one); cities_analyzed and updates_created are both the number of groups.
C11_OneUpdatePerCity ==
    [][\A a \in Authorizations, k \in EmergentKeys :
          AnalyzeRun(a, k)
             => LET groups == {CityGroup(r) : r \in RecentReports}
                    created == ai_updates' \ ai_updates
                IN  /\ response'.status = 200
                    /\ \A u \in created : u.region = "city"
                    /\ {u.region_name : u \in created} = groups
                    /\ Cardinality(created) = Cardinality(groups)
                    /\ response'.body.cities_analyzed = Cardinality(groups)
                    /\ response'.body.updates_created = Cardinality(groups)]_vars

\* C12: an admin's /ai/analyze over recent reports succeeds, and after it
\* every report created within the last day carries one score per city group, ai_auto_flag = (score > 0.7) and a
\* fresh updated_at, with its other fields as before; older reports are
\* as before.
C12_PatchRecentReports ==
    [][\A a \in Authorizations, k \in EmergentKeys :
          AnalyzeRun(a, k)
             => /\ response'.status = 200
                /\ {r.id : r \in reports'} = {r.id : r \in reports}
                /\ \A r \in reports :
                      \E p \in reports' :
                         /\ p.id = r.id
                         /\ IF r \in RecentReports
                            THEN /\ p.ai_severity_score # None
                                 /\ p.ai_auto_flag = (p.ai_severity_score[1] > 7)
                                 /\ p.updated_at = isoformat(datetime(now))
                                 /\ p = [r EXCEPT !.ai_severity_score = p.ai_severity_score,
                                                  !.ai_auto_flag = p.ai_auto_flag,
                                                  !.updated_at = p.updated_at]
                                 /\ \A q \in reports' :
                                       (q.id \in {x.id : x \in RecentReports}
                                        /\ q.city = p.city)
                                          => q.ai_severity_score = p.ai_severity_score
                            ELSE p = r]_vars

\* The severity bucket of a report: critical, moderate, and low for any
\* other value.
Bucket(r) ==
    IF r.severity = "critical" THEN "critical"
    ELSE IF r.severity = "moderate" THEN "moderate" ELSE "low"
Buckets == {"critical", "moderate", "low"}
Ids(list) == [i \in DOMAIN list |-> list[i].id]
Dashboard == request.op = "get_dashboard_data"
\* The fetched reports of a bucket that come before position i.
Before(fetched, i) ==
    {j \in 1..(i - 1) : Bucket(fetched[j]) = Bucket(fetched[i])}

\* C13 as stated: every fetched report is in exactly one bucket list of
\* city_data, the one of its severity, and in the same list of world_data.
C13_EveryReportInItsBucket ==
    Dashboard =>
       LET body == response.body
       IN  /\ body.city_data = body.world_data
           /\ \A r \in Range(body.reports), b \in Buckets :
                 /\ r.id \in Range(Ids(body.city_data[b])) <=> b = Bucket(r)
                 /\ r.id \in Range(Ids(body.world_data[b])) <=> b = Bucket(r)

\* C13: city_data and world_data of a dashboard answer are equal; a fetched
\* report is in no bucket list but the one of its severity, and it is in
\* that list of both exactly when fewer than five fetched reports of the
\* same bucket come before it, as the newest report does.
C13_BucketsAgree ==
    Dashboard =>
       LET body == response.body
       IN  /\ body.city_data = body.world_data
           /\ \A i \in DOMAIN body.reports, b \in Buckets :
                 LET r == body.reports[i]
                 IN  /\ r.id \in Range(Ids(body.city_data[b])) => b = Bucket(r)
                     /\ r.id \in Range(Ids(body.world_data[b])) => b = Bucket(r)
                     /\ b = Bucket(r)
                           => /\ r.id \in Range(Ids(body.city_data[b]))
                                    <=> Cardinality(Before(body.reports, i)) < 5
                              /\ r.id \in Range(Ids(body.world_data[b]))
                                    <=> Cardinality(Before(body.reports, i)) < 5

C13_Witness ==
    /\ Dashboard
    /\ Len(response.body.reports) >= 3
    /\ response.body.reports[1].severity = "critical"
    /\ response.body.city_data.critical # <<>>
    /\ response.body.world_data.moderate # <<>>
    /\ \E i \in DOMAIN response.body.world_data.low :
          response.body.world_data.low[i].severity = "extreme"

\* The first five reports of a bucket in a list of reports.
FirstFive(fetched, b) ==
    LET InBucket(r) == Bucket(r) = b
        all == SelectSeq(fetched, InBucket)
    IN  SubSeq(all, 1, IF Len(all) < 5 THEN Len(all) ELSE 5)

\* The up-to-100 most recently created reports, newest first.
MostRecent(fetched) ==
    /\ Len(fetched) = IF Cardinality(reports) < 100 THEN Cardinality(reports) ELSE 100
    /\ Range(fetched) \subseteq reports
    /\ \A i, j \in DOMAIN fetched :
          i < j => fetched[i] # fetched[j] /\ fetched[j].created_at.t <= fetched[i].created_at.t
    /\ \A r \in reports \ Range(fetched), f \in Range(fetched) :
          r.created_at.t <= f.created_at.t

\* C14: each of the six lists of a dashboard answer has at most 5 items and
\* is the first up-to-5 reports of its severity, newest first, among the
\* up-to-100 most recently created reports.
C14_FirstFivePerBucket ==
    Dashboard =>
       LET body == response.body
       IN  /\ MostRecent(body.reports)
           /\ \A b \in Buckets :
                 /\ Len(body.city_data[b]) <= 5
                 /\ Len(body.world_data[b]) <= 5
                 /\ Ids(body.city_data[b]) = Ids(FirstFive(body.reports, b))
                 /\ Ids(body.world_data[b]) = Ids(FirstFive(body.reports, b))

C14_Witness ==
    /\ Dashboard
    /\ Cardinality({r \in reports : r.severity = "critical"}) > 5
    /\ Len(response.body.city_data.critical) = 5
    /\ response.body.world_data.critical[5].id = "seed-r2"
    /\ response.body.world_data.moderate = <<>>

Statuses == {"pending", "validated", "rejected", "resolved"}

AdminStep ==
    /\ request'.op \in {"update_report", "trigger_ai_analysis"}
    /\ Valid(request'.authorization)
    /\ IsAdmin(Caller(request'.authorization))

\* C16: a stored report's status, ai_severity_score and ai_auto_flag change
\* only in an update-report or analyze step that passed the admin check.
C16_AdminOnlyFields ==
    [][(\E r \in reports, p \in reports' :
           /\ p.id = r.id
           /\ <<p.status, p.ai_severity_score, p.ai_auto_flag>>
                 # <<r.status, r.ai_severity_score, r.ai_auto_flag>>)
          => AdminStep]_vars

\* A user who is no admin has asked for an update of a stored report.
C16_Witness ==
    /\ request.op = "update_report"
    /\ Stored(request.authorization)
    /\ ~IsAdmin(Caller(request.authorization))
    /\ request.report_id \in {r.id : r \in reports}
    /\ response.status # 200
    /\ reports = SeedReports

\* C17: no step changes or removes a stored AIUpdate or Shelter, and none
\* removes the id of a Report or a User; an AIUpdate is added only by an
\* /ai/analyze step and a Shelter only by a POST /shelters step that came
\* with a valid session of an admin.
C17_AppendOnly ==
    [][/\ ai_updates \subseteq ai_updates'
       /\ shelters \subseteq shelters'
       /\ {r.id : r \in reports} \subseteq {r.id : r \in reports'}
       /\ {u.id : u \in users} \subseteq {u.id : u \in users'}
       /\ ai_updates' # ai_updates => request'.op = "trigger_ai_analysis"
       /\ shelters' # shelters
             => /\ request'.op = "create_shelter"
                /\ Valid(request'.authorization)
                /\ IsAdmin(Caller(request'.authorization))]_vars

\* A user who is no admin has logged in a second time and asked for a new
\* shelter.
C17_Witness ==
    /\ request.op = "create_shelter"
    /\ Stored(request.authorization)
    /\ ~IsAdmin(Caller(request.authorization))
    /\ Cardinality(sessions) = 2
    /\ Cardinality(users) = 2
    /\ shelters = SeedShelters
    /\ ai_updates = SeedUpdates

\* C18: every admin's /ai/analyze run over recent reports persists its own
\* AIUpdate for the city of each of them, next to those earlier runs
\* persisted for that city, and patches each of these reports, its write
\* replacing the one before.
C18_EveryRunPersistsAndPatches ==
    [][\A a \in Authorizations, k \in EmergentKeys :
          AnalyzeRun(a, k)
             => \A r \in RecentReports :
                   /\ \E u \in ai_updates' \ ai_updates : u.region_name = CityGroup(r)
                   /\ \E p \in reports' :
                         /\ p.id = r.id
                         /\ p.updated_at = isoformat(datetime(now))]_vars

\* C19: there is at most one User record per email, also when the lookups
\* and writes of several logins interleave.
C19_EmailUnique ==
    \A u, w \in users : u.email = w.email => u.id = w.id

\* C20: no step raises a user's privileges: a stored user keeps its role,
\* a user a step creates has role user, so the only admins are those that
\* were admin at the start, and only their sessions pass verify_admin.
C20_NoPrivilegeRaise ==
    [][/\ \A u \in users : \E w \in users' : w.id = u.id /\ w.role = u.role
       /\ \A w \in users' : w.id \notin {u.id : u \in users} => w.role = "user"
       /\ \A w \in users' : w.role = "admin" => w.id = SeedAdmin.id
       /\ \A a \in Authorizations :
             verify_admin(a).ok => Caller(a) = SeedAdmin.id]_vars

\* A login has created a user, next to the admin, and a later login of the
\* same user found it.
C20_Witness ==
    /\ request.op = "process_session"
    /\ response.status = 200
    /\ response.body.user.role = "user"
    /\ response.body.user.last_seen_at # response.body.user.created_at
    /\ \E u \in users : u.role = "admin"
    /\ Cardinality(sessions) = 2
====
